---- MODULE Spec2Model ----
(***************************************************************************)
(* Model of src/src/timer/interval.rs: the Interval stream, a periodic     *)
(* ticker layered on a single-shot Delay.  Instants and Durations are      *)
(* natural numbers (one unit = one clock step).  The Delay, the clock and  *)
(* the timer driver are collaborators that live outside interval.rs; they  *)
(* are modelled from their documented contract.                            *)
(***************************************************************************)
EXTENDS Integers, Sequences, FiniteSets

\* ---- bounds of the model ------------------------------------------------
MaxClock == 5      \* the clock runs over 0..MaxClock
MaxAt == 2         \* first deadlines handed to a constructor: 0..MaxAt
MaxPeriod == 2     \* durations handed to a constructor: 0..MaxPeriod
MaxTicks == 4      \* at most this many successful ticks are recorded

Instants == 0..MaxAt
Durations == 0..MaxPeriod

\* ---- values -------------------------------------------------------------
NoErr == "none"
Errors == {"shutdown", "at_capacity"}

\* Poll<Result<(), Error>> as returned by Delay::poll
DelayPending == [kind |-> "Pending", err |-> NoErr]
DelayReadyOk == [kind |-> "Ready", err |-> NoErr]
DelayReadyErr(e) == [kind |-> "Ready", err |-> e]

\* Poll<Option<Result<Instant, Error>>> as returned by poll_next
NotPolled == [kind |-> "NotPolled", val |-> 0, err |-> NoErr]
NoReturn == [kind |-> "NoReturn", val |-> 0, err |-> NoErr]
Pending == [kind |-> "Pending", val |-> 0, err |-> NoErr]
ReadyNone == [kind |-> "ReadyNone", val |-> 0, err |-> NoErr]
ReadySomeOk(t) == [kind |-> "ReadySomeOk", val |-> t, err |-> NoErr]
ReadySomeErr(e) == [kind |-> "ReadySomeErr", val |-> 0, err |-> e]

\* a constructor that panicked produced no Interval value
Panic == << >>

VARIABLES
    clock,      \* the clock source: clock::now()
    driver,     \* the timer driver: "ok", or the error it reports
    phase,      \* "init" (nothing constructed), "live", "panicked"
    interval,   \* << >> or <<[delay |-> [deadline |-> d], duration |-> p]>>
    call,       \* the constructor call that was made
    ret,        \* what the last poll_next call returned
    polled,     \* the ticker, clock and driver as the last poll_next found them
    ticks,      \* the values of the successful ticks, in order
    run,        \* the consecutive poll_next calls made at the current clock value
    failed      \* the ticker as the most recent failed poll_next found it

vars == <<clock, driver, phase, interval, call, ret, polled, ticks, run, failed>>

\* ---- the Delay collaborator --------------------------------------------
Delay_new(deadline) == [deadline |-> deadline]

Delay_deadline(delay) == delay.deadline

Delay_reset(delay, deadline) == [delay EXCEPT !.deadline = deadline]

Delay_poll(delay, clk, drv) ==
    IF drv # "ok" THEN DelayReadyErr(drv)
    ELSE IF clk >= delay.deadline THEN DelayReadyOk
    ELSE DelayPending

\* ---- constructors -------------------------------------------------------
new_with_delay(delay, duration) ==
    << [delay |-> delay, duration |-> duration] >>

\* assert!(duration > Duration::new(0, 0), ...)
duration_unchecked(duration) == TRUE

duration_non_zero(duration) == duration > 0

\* the deadline the first Delay is armed for: Delay::new(at)
first_deadline_late(at, duration) == at + duration

first_deadline(at, duration) == at

new(at, duration) ==
    IF ~duration_non_zero(duration) THEN Panic
    ELSE new_with_delay(Delay_new(first_deadline(at, duration)), duration)

new_interval_immediate(now, duration) == new(now, duration)

new_interval(now, duration) == new(now + duration, duration)

\* ---- poll_next ----------------------------------------------------------
\* ready!(self.delay().poll(lw)?): what line 67 makes poll_next return, or
\* NoReturn when the delay resolved and the function goes on
early_return_first_error(p) ==
    IF p.kind = "Ready" /\ p.err # NoErr THEN ReadySomeErr("shutdown")
    ELSE IF p.kind = "Pending" THEN Pending
    ELSE NoReturn

early_return_end(p) ==
    IF p.kind = "Ready" /\ p.err # NoErr THEN ReadyNone
    ELSE IF p.kind = "Pending" THEN Pending
    ELSE NoReturn

early_return_stuck(p) ==
    IF p.kind = "Ready" /\ p.err # NoErr THEN ReadySomeErr(p.err)
    ELSE Pending

early_return_no_wait(p) ==
    IF p.kind = "Ready" /\ p.err # NoErr THEN ReadySomeErr(p.err)
    ELSE NoReturn

early_return(p) ==
    IF p.kind = "Ready" /\ p.err # NoErr THEN ReadySomeErr(p.err)
    ELSE IF p.kind = "Pending" THEN Pending
    ELSE NoReturn

\* let now = self.delay.deadline();
now_from_clock(self) == clock

now_of_next(self) == Delay_deadline(self.delay) + self.duration

now_of(self) == Delay_deadline(self.delay)

\* let delay = now + self.duration;
next_delay_from_clock(now, duration) == clock + duration

next_delay_same(now, duration) == now

next_delay(now, duration) == now + duration

poll_next_reset_on_error(self, clk, drv) ==
    LET early == early_return(Delay_poll(self.delay, clk, drv))
        now == now_of(self)
        delay == next_delay(now, self.duration)
        rearmed == [self EXCEPT !.delay = Delay_reset(self.delay, delay)]
    IN  IF early = Pending
        THEN [self |-> self, ret |-> early]
        ELSE IF early # NoReturn
        THEN [self |-> rearmed, ret |-> early]
        ELSE [self |-> rearmed, ret |-> ReadySomeOk(now)]

poll_next(self, clk, drv) ==
    LET early == early_return(Delay_poll(self.delay, clk, drv))
    IN  IF early # NoReturn
        THEN [self |-> self, ret |-> early]
        ELSE LET now == now_of(self)
                 delay == next_delay(now, self.duration)
             IN  [self |-> [self EXCEPT !.delay = Delay_reset(self.delay, delay)],
                  ret |-> ReadySomeOk(now)]

\* ---- the state machine --------------------------------------------------
NoCall == [op |-> "none", at |-> 0, duration |-> 0, now |-> 0]
NoPoll == [deadline |-> 0, duration |-> 0, clock |-> 0, driver |-> "ok", emitted |-> 0]
NoRun == [open |-> FALSE, start |-> 0, ticks |-> 0, pending |-> FALSE]
NoFailure == [seen |-> FALSE, emitted |-> 0, deadline |-> 0]

Init ==
    /\ clock = 0
    /\ driver = "ok"
    /\ phase = "init"
    /\ interval = << >>
    /\ call = NoCall
    /\ ret = NotPolled
    /\ polled = NoPoll
    /\ ticks = << >>
    /\ run = NoRun
    /\ failed = NoFailure

Constructed(made, c) ==
    /\ phase = "init"
    /\ interval' = made
    /\ phase' = IF made = Panic THEN "panicked" ELSE "live"
    /\ call' = c
    /\ UNCHANGED <<clock, driver, ret, polled, ticks, run, failed>>

New ==
    \E at \in Instants, duration \in Durations :
        Constructed(new(at, duration),
                    [op |-> "new", at |-> at, duration |-> duration, now |-> clock])

NewInterval ==
    \E duration \in Durations :
        Constructed(new_interval(clock, duration),
                    [op |-> "new_interval", at |-> clock + duration,
                     duration |-> duration, now |-> clock])

NewWithDelay ==
    \E at \in Instants, duration \in Durations :
        Constructed(new_with_delay(Delay_new(at), duration),
                    [op |-> "new_with_delay", at |-> at,
                     duration |-> duration, now |-> clock])

PollNext ==
    /\ phase = "live"
    /\ Len(ticks) < MaxTicks
    /\ LET r == poll_next(interval[1], clock, driver)
       IN  /\ interval' = << r.self >>
           /\ ret' = r.ret
           /\ ticks' = IF r.ret.kind = "ReadySomeOk"
                       THEN Append(ticks, r.ret.val) ELSE ticks
    /\ polled' = [deadline |-> interval[1].delay.deadline,
                  duration |-> interval[1].duration,
                  clock |-> clock, driver |-> driver, emitted |-> Len(ticks)]
    /\ LET r == poll_next(interval[1], clock, driver)
           base == IF run.open THEN run
                   ELSE [open |-> TRUE, start |-> interval[1].delay.deadline,
                         ticks |-> 0, pending |-> FALSE]
       IN  /\ run' = IF base.pending THEN base
                      ELSE [base EXCEPT
                              !.ticks = IF r.ret.kind = "ReadySomeOk" THEN @ + 1 ELSE @,
                              !.pending = (r.ret.kind = "Pending")]
           /\ failed' = IF r.ret.kind = "ReadySomeErr"
                         THEN [seen |-> TRUE, emitted |-> Len(ticks),
                               deadline |-> interval[1].delay.deadline]
                         ELSE failed
    /\ UNCHANGED <<clock, driver, phase, call>>

ClockAdvance ==
    /\ clock < MaxClock
    /\ clock' = clock + 1
    /\ run' = NoRun
    /\ UNCHANGED <<driver, phase, interval, call, ret, polled, ticks, failed>>

DriverFail ==
    /\ driver = "ok"
    /\ \E e \in Errors : driver' = e
    /\ UNCHANGED <<clock, phase, interval, call, ret, polled, ticks, run, failed>>

DriverRestore ==
    /\ driver # "ok"
    /\ driver' = "ok"
    /\ UNCHANGED <<clock, phase, interval, call, ret, polled, ticks, run, failed>>

Next ==
    \/ New
    \/ NewInterval
    \/ NewWithDelay
    \/ PollNext
    \/ ClockAdvance
    \/ DriverFail
    \/ DriverRestore

Spec == Init /\ [][Next]_vars

\* the driver never fails, the clock keeps advancing and the consumer keeps
\* calling poll_next
NextHealthy ==
    \/ New
    \/ NewInterval
    \/ NewWithDelay
    \/ PollNext
    \/ ClockAdvance

LiveSpec ==
    /\ Init
    /\ [][NextHealthy]_vars
    /\ WF_vars(ClockAdvance)
    /\ WF_vars(PollNext)

TypeOK ==
    /\ clock \in 0..MaxClock
    /\ driver \in {"ok"} \cup Errors
    /\ phase \in {"init", "live", "panicked"}
    /\ Len(interval) \in {0, 1}
    /\ Len(ticks) <= MaxTicks
    /\ ret.kind \in {"NotPolled", "Pending", "ReadySomeOk", "ReadySomeErr", "ReadyNone"}

\* ---- properties ---------------------------------------------------------
Live == phase = "live"
HasPolled == ret.kind # "NotPolled"
\* the last poll_next found its delay already due
WasDue == HasPolled /\ polled.deadline <= polled.clock
\* the last poll_next came more than one period after its armed deadline
WasLate == HasPolled /\ polled.clock > polled.deadline + polled.duration
\* what the owned delay answered to the last poll_next
DelayAnswer ==
    Delay_poll(Delay_new(polled.deadline), polled.clock, polled.driver)

\* C1: a ticker built by new(first_deadline, period), period > 0, returns
\* first_deadline + k*period as its k-th successful tick (k from 0),
\* whatever the clock did between the polls.
C1_DriftFree ==
    (call.op = "new" /\ call.duration > 0) =>
        \A k \in 1..Len(ticks) : ticks[k] = call.at + (k - 1) * call.duration

C1_Witness ==
    /\ call.op = "new" /\ call.duration > 0
    /\ Len(ticks) >= 3
    /\ WasLate
    /\ ret = ReadySomeOk(call.at + 2 * call.duration)

\* C2: a poll_next that finds the armed deadline at or before the clock
\* (also more than a period before it) does not suspend; unless the delay
\* fails it returns the armed deadline, not the clock value, and re-arms
\* one period later, so successive ticks are one period apart with none
\* skipped.
C2_LateConsumer ==
    /\ WasDue =>
        /\ ret.kind # "Pending"
        /\ polled.driver = "ok" =>
            /\ ret = ReadySomeOk(polled.deadline)
            /\ interval[1].delay.deadline = polled.deadline + polled.duration
    /\ \A k \in 1..Len(ticks) :
        k > 1 => ticks[k] = ticks[k - 1] + interval[1].duration

C2_Witness ==
    /\ WasLate /\ polled.duration > 0
    /\ polled.emitted >= 1
    /\ ret = ReadySomeOk(polled.deadline)
    /\ ret.val < polled.clock
    /\ interval[1].delay.deadline <= clock

\* C3: new(at, 0) and new_interval(0) panic: no Interval exists and no
\* poll_next result or tick is ever observed.
C3_ZeroPeriodPanics ==
    (call.op \in {"new", "new_interval"} /\ call.duration = 0) =>
        /\ phase = "panicked"
        /\ interval = Panic
        /\ ret = NotPolled
        /\ ticks = << >>

C3_Witness ==
    /\ call.op = "new_interval" /\ call.duration = 0
    /\ phase = "panicked"
    /\ clock > call.now

\* C4: new_with_delay(delay, 0) panics like new and produces no Interval.
C4_SamePrecondition ==
    (call.op = "new_with_delay" /\ call.duration = 0) =>
        /\ phase = "panicked"
        /\ interval = Panic

\* C5: new_interval(period) called at clock value c is new(c + period,
\* period): no tick while the clock is before c + period, and the first
\* successful tick is c + period.
C5_NewInterval ==
    (call.op = "new_interval" /\ Live) =>
        /\ ticks = << >> => interval = new(call.now + call.duration, call.duration)
        /\ clock < call.now + call.duration => ticks = << >>
        /\ ticks # << >> =>
            /\ ticks[1] = call.now + call.duration
            /\ ticks[1] # call.now

C5_Witness ==
    /\ call.op = "new_interval" /\ call.now > 0
    /\ Len(ticks) = 1
    /\ ret = ReadySomeOk(call.now + call.duration)

\* C6: when the owned delay reports the failure e to a poll_next call,
\* that call returns Ready(Some(Err(e))) with the same e and emits no tick.
C6_ErrorPassThrough ==
    (HasPolled /\ DelayAnswer.err # NoErr) =>
        /\ ret = ReadySomeErr(DelayAnswer.err)
        /\ Len(ticks) = polled.emitted

C6_Witness ==
    /\ HasPolled /\ DelayAnswer = DelayReadyErr("at_capacity")
    /\ ret = ReadySomeErr("at_capacity")
    /\ WasDue

\* C7: the successful ticks of one ticker are strictly increasing, each
\* exactly one period after the previous one.
C7_StrictlyIncreasing ==
    Live =>
        \A k \in 1..Len(ticks) :
            k > 1 => /\ ticks[k] > ticks[k - 1]
                     /\ ticks[k] = ticks[k - 1] + interval[1].duration

\* C8: poll_next returns Pending, Ready(Some(Ok(t))) or Ready(Some(Err(e))),
\* never Ready(None), also after ticks and after an error.
C8_NeverEnds ==
    HasPolled => ret.kind \in {"Pending", "ReadySomeOk", "ReadySomeErr"}

C8_Witness ==
    /\ Len(ticks) >= 2
    /\ ret.kind = "ReadySomeErr"

\* C9: the first successful tick of new(at, duration) is at itself, and
\* with at not after the clock the first poll_next does not suspend: it
\* returns at (unless the delay fails).
C9_ItemAtStart ==
    (call.op = "new" /\ Live) =>
        /\ ticks # << >> => ticks[1] = call.at
        /\ (HasPolled /\ polled.emitted = 0 /\ call.at <= polled.clock) =>
            /\ ret.kind # "Pending"
            /\ polled.driver = "ok" => ret = ReadySomeOk(call.at)

C9_Witness ==
    /\ call.op = "new" /\ call.at < call.now
    /\ polled.emitted = 0 /\ polled.clock = call.now
    /\ ret = ReadySomeOk(call.at)

\* C10: the delay is armed for D + k*p, D the first deadline, p the period
\* given at construction and k the number of successful ticks so far; the
\* stored period stays p.
C10_ArmedDeadline ==
    Live =>
        /\ interval[1].delay.deadline = call.at + Len(ticks) * call.duration
        /\ interval[1].duration = call.duration

C10_Witness ==
    /\ Live /\ call.duration > 0
    /\ Len(ticks) >= 2
    /\ WasLate
    /\ ret.kind = "ReadySomeOk"
    /\ interval[1].delay.deadline = call.at + 2 * call.duration

\* C11: every ticker, whichever constructor built it, has period > 0.
C11_PeriodPositive ==
    Live => interval[1].duration > 0

\* C12: a poll_next call in which the owned delay fails leaves the ticker
\* as it found it: same armed deadline, same period.
C12_NoResetOnFailure ==
    (HasPolled /\ DelayAnswer.err # NoErr) =>
        /\ interval[1].delay.deadline = polled.deadline
        /\ interval[1].duration = polled.duration

C12_Witness ==
    /\ ret.kind = "ReadySomeErr"
    /\ polled.emitted >= 1
    /\ polled.deadline + polled.duration <= polled.clock
    /\ interval[1].delay.deadline = polled.deadline

\* C13: with the driver healthy poll_next returns Pending exactly when the
\* clock is before the armed deadline, and a call that returns Pending
\* emits no tick and leaves the armed deadline and the period unchanged.
C13_PendingIffNotDue ==
    /\ (HasPolled /\ polled.driver = "ok") =>
        (ret.kind = "Pending" <=> polled.clock < polled.deadline)
    /\ ret.kind = "Pending" =>
        /\ Len(ticks) = polled.emitted
        /\ interval[1].delay.deadline = polled.deadline
        /\ interval[1].duration = polled.duration

C13_Witness ==
    /\ ret = Pending
    /\ polled.driver = "ok"
    /\ polled.emitted >= 1
    /\ polled.clock + 1 = polled.deadline
    /\ interval[1].delay.deadline = polled.deadline

\* C14: in a run of consecutive poll_next calls at one clock value t that
\* starts with the armed deadline D <= t, the ticks returned are bounded by
\* floor((t - D) / period) + 1, and exactly that many have been returned
\* when the first Pending comes.  The quotient exists only for period > 0:
\* with period 0 no finite count bounds the run.
C14_BoundedCatchUp ==
    (run.open /\ run.start <= clock) =>
        /\ interval[1].duration > 0
        /\ run.ticks <= ((clock - run.start) \div interval[1].duration) + 1
        /\ run.pending =>
            run.ticks = ((clock - run.start) \div interval[1].duration) + 1

\* C15: no tick is early: a tick value is never after the clock value of
\* the call that returned it, no tick comes while the clock is before the
\* first deadline D, and n ticks are out only once D + (n-1)*period has
\* been reached, that is n <= floor((t - D) / period) + 1.
C15_NoEarlyTick ==
    /\ ret.kind = "ReadySomeOk" => ret.val <= polled.clock
    /\ \A k \in 1..Len(ticks) : ticks[k] <= clock
    /\ (Live /\ clock < call.at) => ticks = << >>
    /\ ticks # << >> => call.at + (Len(ticks) - 1) * call.duration <= clock
    /\ (ticks # << >> /\ call.at <= clock /\ call.duration > 0) =>
        Len(ticks) <= ((clock - call.at) \div call.duration) + 1

C15_Witness ==
    /\ ret.kind = "ReadySomeOk" /\ ret.val = polled.clock
    /\ polled.clock = clock
    /\ call.duration > 1
    /\ Len(ticks) = ((clock - call.at) \div call.duration) + 1
    /\ Len(ticks) >= 2

\* C16: with a healthy driver, an advancing clock and a consumer that keeps
\* polling, every tick first_deadline + k*period that the clock can reach
\* is eventually returned, as the k-th tick.
C16_EveryTickReturned ==
    \A k \in 0..(MaxTicks - 1) :
        (Live /\ call.at + k * call.duration <= MaxClock)
            ~> (Len(ticks) > k /\ ticks[k + 1] = call.at + k * call.duration)

C16_Witness ==
    /\ driver = "ok" /\ ~failed.seen
    /\ call.duration > 0
    /\ Len(ticks) >= 3
    /\ ticks[3] = call.at + 2 * call.duration
    /\ clock = ticks[3]

\* C17: the first success after a failed poll_next returns the deadline
\* that was armed when the call failed, and with errors in between the
\* successful ticks are still first_deadline, first_deadline + period, ...
\* in order, none left out and none returned twice.
C17_ErrorKeepsTick ==
    /\ (failed.seen /\ Len(ticks) > failed.emitted) =>
        ticks[failed.emitted + 1] = failed.deadline
    /\ Live =>
        \A k \in 1..Len(ticks) : ticks[k] = call.at + (k - 1) * call.duration

C17_Witness ==
    /\ failed.seen /\ failed.emitted >= 1
    /\ polled.emitted = failed.emitted
    /\ ret = ReadySomeOk(failed.deadline)
    /\ Len(ticks) = failed.emitted + 1

====
